---------------------------- MODULE Spec2Model ----------------------------
(***************************************************************************)
(* db_builder: one invocation of the tool that bulk-loads a fluid-LSM      *)
(* shaped store.  The process (main, parse_args, build_db) and the         *)
(* compaction overrides of FluidLSMBulkLoader are modelled from            *)
(* src/tools/db_builder.cpp and src/tools/infrastructure/bulk_loader.hpp.  *)
(* The bodies of bulk_load_entries / bulk_load / bulk_load_single_level /  *)
(* bulk_load_single_run are only declared in bulk_loader.hpp; their        *)
(* behaviour (shape planning, batch writes, sealing) is modelled from      *)
(* spec.md sections 4.1 and 4.4.  The storage engine is a black box whose  *)
(* calls may each succeed or fail.                                         *)
(***************************************************************************)
EXTENDS Integers, Sequences, FiniteSets, TLC

VARIABLES
    argv,        \* the command line of this invocation
    env,         \* struct environment (db_builder.cpp:15-35)
    pc,          \* position of the process
    exit_code,   \* NotExited while running, else the process's exit status
    store,       \* whether a store exists at db_path
    store0,      \* whether a store existed at db_path when the process started
    fluid_opt,   \* tmpdb::FluidOptions, filled by fill_fluid_opt
    listeners,   \* rocksdb_opt.listeners
    db,          \* the engine handle: "null", "open", "closed"
    status,      \* the rocksdb::Status of the session so far
    session,     \* Bulk Loader state machine (spec.md 4.4)
    plan,        \* the LoadPlan computed by bulk_load_entries
    cur,         \* loader position: level (index in plan), run, batch, written
    memtable,    \* entries written to the engine and not yet sealed
    sealed,      \* the runs this session has placed in the tree, oldest
                 \* first: [level, entries]
    pending,     \* compaction tasks queued by ScheduleCompaction
    picked,      \* what the last PickCompaction callback returned
    calls,       \* number of calls issued to the engine, per operation
    lastOp,      \* the last write/seal issued by the loader
    gateCalls,   \* compaction callbacks the engine has fired so far
    kv           \* a call of generate_kv_pair: its arguments and its result

vars == <<argv, env, pc, exit_code, store, store0, fluid_opt, listeners, db,
          status, session, plan, cur, memtable, sealed, pending, picked,
          calls, lastOp, gateCalls, kv>>

---------------------------------------------------------------------------
(* Program constants *)

BATCH_SIZE == 10000
KEY_DOMAIN == 1000000000
minimum_entry_size == 32
EXIT_SUCCESS == 0
EXIT_FAILURE == 1
DefaultT == 2
DefaultK == 1
DefaultZ == 1
DefaultB == 1048576
DefaultE == 8192
DefaultN == 1000000
DefaultL == 1

(* Bounds of the model *)

MaxT == 3
MaxRunCap == 2
MaxL == 2
MaxRunBound == 2
MaxGateCalls == 1
MaxPlanN == 14
MaxPlanB == 4
MaxKvExtra == 3
MaxPrefixLen == 24

NotExited == -1

Min(a, b) == IF a < b THEN a ELSE b

---------------------------------------------------------------------------
(* The command line *)

TVals == 1..MaxT
RunCapVals == 1..MaxRunCap
BVals == {4, DefaultB}
EVals == {minimum_entry_size - 1, minimum_entry_size}
NVals == {0, 12, 2 * BATCH_SIZE + 1}
LVals == 1..MaxL

\* -N num and -L num are a one_of: -L leaves env.N at its default and -N
\* leaves env.L at its default.
FillArgs ==
    [build_fill : {"ENTRIES"}, N : NVals, L : {DefaultL}]
        \cup [build_fill : {"LEVELS"}, N : {DefaultN}, L : LVals]

ShapeArgs ==
    [T : TVals, K : RunCapVals, Z : RunCapVals, B : BVals, E : EVals]

Argv ==
    { [parse_ok |-> ok, help |-> h, destroy_db |-> d,
       T |-> s.T, K |-> s.K, Z |-> s.Z, B |-> s.B, E |-> s.E,
       build_fill |-> f.build_fill, N |-> f.N, L |-> f.L] :
        ok \in BOOLEAN, h \in BOOLEAN, d \in BOOLEAN,
        s \in ShapeArgs, f \in FillArgs }

\* struct environment with its member initialisers
environment ==
    [T |-> DefaultT, K |-> DefaultK, Z |-> DefaultZ, B |-> DefaultB,
     E |-> DefaultE, N |-> DefaultN, L |-> DefaultL,
     build_fill |-> "ENTRIES", destroy_db |-> FALSE]

NoCalls ==
    [destroy |-> 0, open |-> 0, load |-> 0, write |-> 0, seal |-> 0,
     close |-> 0]

NoOp == [op |-> "none", level |-> 0, run |-> 0, batch |-> 0]
NoCur == [level |-> 0, run |-> 0, batch |-> 0, written |-> 0]
NoTask == [level |-> -1]

\* no call of generate_kv_pair is under way
NoKv ==
    [pending |-> FALSE, done |-> FALSE, kv_size |-> 0, key_prefix |-> <<>>,
     value_prefix |-> <<>>, ok |-> FALSE, key |-> <<>>, value |-> <<>>]

\* tmpdb::FluidOptions before fill_fluid_opt has filled it
FluidOptions ==
    [size_ratio |-> 0, largest_level_run_max |-> 0, lower_level_run_max |-> 0,
     buffer_size |-> 0, entry_size |-> 0]

Init ==
    /\ argv \in Argv
    /\ env = environment
    /\ pc = "parse_args"
    /\ exit_code = NotExited
    /\ store \in BOOLEAN
    /\ store0 = store
    /\ fluid_opt = FluidOptions
    /\ listeners = {}
    /\ db = "null"
    /\ status = "none"
    /\ session = "Idle"
    /\ plan = <<>>
    /\ cur = NoCur
    /\ memtable = 0
    /\ sealed = <<>>
    /\ pending = <<>>
    /\ picked = NoTask
    /\ calls = NoCalls
    /\ lastOp = NoOp
    /\ gateCalls = 0
    /\ kv = NoKv

---------------------------------------------------------------------------
(* parse_args *)

\* Variant of parse_args_help: the entry size is not checked.
parse_args_help_no_min(a) ==
    \/ ~a.parse_ok
    \/ a.help

\* help is set by a failed parse, by -h, and by an entry size below the
\* minimum; it makes parse_args print the man page and exit(EXIT_FAILURE).
parse_args_help(a) ==
    \/ ~a.parse_ok
    \/ a.help
    \/ a.E < minimum_entry_size

ParseArgs ==
    /\ pc = "parse_args"
    /\ IF parse_args_help(argv)
       THEN /\ pc' = "exit"
            /\ exit_code' = EXIT_FAILURE
            /\ env' = env
       ELSE /\ pc' = "main"
            /\ exit_code' = exit_code
            /\ env' = [T |-> argv.T, K |-> argv.K, Z |-> argv.Z,
                       B |-> argv.B, E |-> argv.E, N |-> argv.N,
                       L |-> argv.L, build_fill |-> argv.build_fill,
                       destroy_db |-> argv.destroy_db]
    /\ UNCHANGED <<kv, argv, store, store0, fluid_opt, listeners, db, status, session,
                   plan, cur, memtable, sealed, pending, picked, calls,
                   lastOp, gateCalls>>

---------------------------------------------------------------------------
(* main *)

\* if (env.destroy_db) rocksdb::DestroyDB(...); then build_db(env)
\* Variant of MainDestroy: the store is destroyed whatever the flag says.
MainDestroyAlways ==
    /\ pc = "main"
    /\ store' = FALSE
    /\ calls' = [calls EXCEPT !.destroy = @ + 1]
    /\ pc' = "build_db"
    /\ UNCHANGED <<kv, argv, env, exit_code, store0, fluid_opt, listeners, db, status,
                   session, plan, cur, memtable, sealed, pending, picked,
                   lastOp, gateCalls>>

MainDestroy ==
    /\ pc = "main"
    /\ IF env.destroy_db
       THEN /\ store' = FALSE
            /\ calls' = [calls EXCEPT !.destroy = @ + 1]
       ELSE UNCHANGED <<store, calls>>
    /\ pc' = "build_db"
    /\ UNCHANGED <<kv, argv, env, exit_code, store0, fluid_opt, listeners, db, status,
                   session, plan, cur, memtable, sealed, pending, picked,
                   lastOp, gateCalls>>

---------------------------------------------------------------------------
(* build_db *)

\* Variant of install_listener: the loader is constructed and never registered.
install_listener_skipped(ls) == ls

\* rocksdb_opt.listeners.emplace_back(fluid_compactor)
install_listener(ls) == ls \cup {"FluidLSMBulkLoader"}

\* Variant of fill_fluid_opt: the two run caps are assigned to each other's
\* field.
fill_fluid_opt_caps_swapped(e) ==
    [size_ratio |-> e.T, largest_level_run_max |-> e.K,
     lower_level_run_max |-> e.Z, buffer_size |-> e.B, entry_size |-> e.E]

\* Variant of fill_fluid_opt: the buffer size is taken from the size ratio.
fill_fluid_opt_wrong_buffer(e) ==
    [size_ratio |-> e.T, largest_level_run_max |-> e.Z,
     lower_level_run_max |-> e.K, buffer_size |-> e.T, entry_size |-> e.E]

\* Variant of fill_fluid_opt: the size ratio is taken from the buffer size.
fill_fluid_opt_wrong_ratio(e) ==
    [size_ratio |-> e.B, largest_level_run_max |-> e.Z,
     lower_level_run_max |-> e.K, buffer_size |-> e.B, entry_size |-> e.E]

\* fill_fluid_opt(env, fluid_opt)
fill_fluid_opt(e) ==
    [size_ratio |-> e.T, largest_level_run_max |-> e.Z,
     lower_level_run_max |-> e.K, buffer_size |-> e.B, entry_size |-> e.E]

\* Options set up, fill_fluid_opt, the loader constructed and registered.
BuildDbSetup ==
    /\ pc = "build_db"
    /\ fluid_opt' = fill_fluid_opt(env)
    /\ listeners' = install_listener(listeners)
    /\ pc' = "open"
    /\ UNCHANGED <<kv, argv, env, exit_code, store, store0, db, status, session,
                   plan, cur, memtable, sealed, pending, picked, calls,
                   lastOp, gateCalls>>

\* Variant of open_not_ok: the status of DB::Open is not looked at.
open_not_ok_ignored(st) == FALSE

\* if (!status.ok()) after DB::Open: log, delete db, exit(EXIT_FAILURE)
open_not_ok(st) == st # "ok"

\* Variant of bulk_load_not_ok: the status of the load is not looked at.
bulk_load_not_ok_ignored(st) == FALSE

\* if (!status.ok()) after bulk_load_entries: log, delete db, exit(EXIT_FAILURE)
bulk_load_not_ok(st) == st # "ok"

\* rocksdb::DB::Open(rocksdb_opt, env.db_path, &db) and the check after it;
\* create_if_missing makes a successful open leave a store at the path.
OpenDB ==
    /\ pc = "open"
    /\ \E st \in {"ok", "open_error"} :
        /\ calls' = [calls EXCEPT !.open = @ + 1]
        /\ status' = st
        /\ db' = IF st = "ok" THEN "open" ELSE "null"
        /\ store' = IF st = "ok" THEN TRUE ELSE store
        /\ IF open_not_ok(st)
           THEN /\ pc' = "exit"
                /\ exit_code' = EXIT_FAILURE
                /\ session' = "Failed"
           ELSE /\ pc' = "bulk_load_entries"
                /\ UNCHANGED <<exit_code, session>>
    /\ UNCHANGED <<kv, argv, env, store0, fluid_opt, listeners, plan, cur, memtable, sealed,
                   pending, picked, lastOp, gateCalls>>

\* Variant of StatusCheck: a failed load is rolled back by destroying the
\* store before the exit.
StatusCheckRollback ==
    /\ pc = "status_check"
    /\ IF bulk_load_not_ok(status)
       THEN /\ exit_code' = EXIT_FAILURE
            /\ calls' = [calls EXCEPT !.destroy = @ + 1]
            /\ store' = FALSE
            /\ sealed' = <<>>
       ELSE /\ exit_code' = EXIT_SUCCESS
            /\ calls' = [calls EXCEPT !.close = @ + 1]
            /\ UNCHANGED <<store, sealed>>
    /\ db' = "closed"
    /\ pc' = "exit"
    /\ UNCHANGED <<kv, argv, env, store0, fluid_opt, listeners, status, session,
                   plan, cur, memtable, pending, picked, lastOp, gateCalls>>

\* spdlog::info("Finished building"); the status check; Close; main returns.
StatusCheck ==
    /\ pc = "status_check"
    /\ IF bulk_load_not_ok(status)
       THEN /\ exit_code' = EXIT_FAILURE
            /\ UNCHANGED calls
       ELSE /\ exit_code' = EXIT_SUCCESS
            /\ calls' = [calls EXCEPT !.close = @ + 1]
    /\ db' = "closed"
    /\ pc' = "exit"
    /\ UNCHANGED <<kv, argv, env, store, store0, fluid_opt, listeners, status, session,
                   plan, cur, memtable, sealed, pending, picked, lastOp,
                   gateCalls>>

---------------------------------------------------------------------------
(* Shape Planner (spec.md 4.1) *)

RECURSIVE Pow(_, _)
Pow(b, e) == IF e = 0 THEN 1 ELSE b * Pow(b, e - 1)

\* level i holds up to B * T^i entries
LevelCapacity(B, T, i) == B * Pow(T, i)

\* Variant of EntriesPerLevel: only full levels are planned, the remainder
\* that does not fill a level is left out.
RECURSIVE EntriesPerLevelFullOnly(_, _, _, _)
EntriesPerLevelFullOnly(B, T, remaining, i) ==
    IF remaining < B * Pow(T, i)
    THEN <<>>
    ELSE <<B * Pow(T, i)>>
            \o EntriesPerLevelFullOnly(B, T, remaining - B * Pow(T, i), i + 1)

\* Levels are filled bottom-up, level i first taking up to its capacity; the
\* last level used absorbs the remainder.
RECURSIVE EntriesPerLevel(_, _, _, _)
EntriesPerLevel(B, T, remaining, i) ==
    IF remaining = 0
    THEN <<>>
    ELSE LET c == Min(remaining, LevelCapacity(B, T, i))
         IN  <<c>> \o EntriesPerLevel(B, T, remaining - c, i + 1)

\* Variant of RunCap: the two caps are taken for each other.
RunCapSwapped(K, Z, i, last) == IF i = last THEN K ELSE Z

\* the run cap of a level: K below the last level, Z at the last
RunCap(K, Z, i, last) == IF i = last THEN Z ELSE K

\* runs needed to hold n entries with at most bound entries in each
RunsNeeded(n, bound) == (n + bound - 1) \div bound

RunCount(K, Z, i, last, n, bound) ==
    Min(RunCap(K, Z, i, last), RunsNeeded(n, bound))

\* n entries split as evenly as possible over r runs
\* Variant of EntriesInRun: every run gets the quotient, the rest is dropped.
EntriesInRunQuotient(n, r) ==
    [j \in 1..r |-> n \div r]

EntriesInRun(n, r) ==
    [j \in 1..r |-> (n \div r) + (IF j <= n % r THEN 1 ELSE 0)]

\* The LoadPlan: one [level, entries, run_count, entries_in_run] per level.
\* The per-run size bound is not fixed by the description: it is a parameter.
LoadPlan(B, T, K, Z, N, bound) ==
    LET e == EntriesPerLevel(B, T, N, 0)
        last == Len(e) - 1
    IN  [i \in 1..Len(e) |->
            LET r == RunCount(K, Z, i - 1, last, e[i], bound)
            IN  [level |-> i - 1, entries |-> e[i], run_count |-> r,
                 entries_in_run |-> EntriesInRun(e[i], r)]]

\* Fails with a PlanningError if N is 0 or T <= 1.
PlanningError(T, N) == N = 0 \/ T <= 1

---------------------------------------------------------------------------
(* FluidLSMBulkLoader: the Bulk Loader (spec.md 4.4) *)

\* fluid_compactor->init_open_db(db); bulk_load_entries(db, env.N) is called
BulkLoadEntries ==
    /\ pc = "bulk_load_entries"
    /\ calls' = [calls EXCEPT !.load = @ + 1]
    /\ session' = "Planning"
    /\ pc' = "plan"
    /\ UNCHANGED <<kv, argv, env, exit_code, store, store0, fluid_opt, listeners, db,
                   status, plan, cur, memtable, sealed, pending, picked,
                   lastOp, gateCalls>>

\* bulk_load_entries computes the plan from fluid_opt and num_entries
PlanShape ==
    /\ pc = "plan"
    /\ IF PlanningError(fluid_opt.size_ratio, env.N)
       THEN /\ status' = "planning_error"
            /\ session' = "Failed"
            /\ pc' = "status_check"
            /\ UNCHANGED <<plan, cur>>
       ELSE /\ \E bound \in 1..MaxRunBound :
                plan' = LoadPlan(fluid_opt.buffer_size, fluid_opt.size_ratio,
                                 fluid_opt.lower_level_run_max,
                                 fluid_opt.largest_level_run_max,
                                 env.N, bound)
            /\ cur' = [level |-> 1, run |-> 1, batch |-> 0, written |-> 0]
            /\ session' = "Loading"
            /\ pc' = "write_batch"
            /\ UNCHANGED status
    /\ UNCHANGED <<kv, argv, env, exit_code, store, store0, fluid_opt, listeners, db,
                   memtable, sealed, pending, picked, calls, lastOp,
                   gateCalls>>

RunEntries == plan[cur.level].entries_in_run[cur.run]

\* bulk_load_single_run: one batch of at most BATCH_SIZE entries is written
WriteBatch ==
    /\ pc = "write_batch"
    /\ LET n == Min(BATCH_SIZE, RunEntries - cur.written)
       IN  \E st \in {"ok", "write_error"} :
            /\ calls' = [calls EXCEPT !.write = @ + 1]
            /\ lastOp' = [op |-> "write_batch", level |-> plan[cur.level].level,
                          run |-> cur.run, batch |-> cur.batch + 1]
            /\ IF st = "ok"
               THEN /\ memtable' = memtable + n
                    /\ cur' = [cur EXCEPT !.batch = @ + 1, !.written = @ + n]
                    /\ pc' = IF cur.written + n = RunEntries
                             THEN "seal" ELSE "write_batch"
                    /\ UNCHANGED <<status, session>>
               ELSE /\ status' = st
                    /\ session' = "Failed"
                    /\ pc' = "status_check"
                    /\ UNCHANGED <<memtable, cur>>
    /\ UNCHANGED <<kv, argv, env, exit_code, store, store0, fluid_opt, listeners, db, plan,
                   sealed, pending, picked, gateCalls>>

\* Variant of NextCur: a level is left after its first run.
NextCurNextLevel ==
    [level |-> cur.level + 1, run |-> 1, batch |-> 0, written |-> 0]

\* the loader's position after the current run has been sealed
NextCur ==
    IF cur.run < plan[cur.level].run_count
    THEN [level |-> cur.level, run |-> cur.run + 1, batch |-> 0, written |-> 0]
    ELSE [level |-> cur.level + 1, run |-> 1, batch |-> 0, written |-> 0]

\* bulk_load_single_run: the written entries are sealed as one run at the
\* target level; then the next run, the next level, or the end of the load
SealRun ==
    /\ pc = "seal"
    /\ \E st \in {"ok", "seal_error"} :
        /\ calls' = [calls EXCEPT !.seal = @ + 1]
        /\ lastOp' = [op |-> "seal", level |-> plan[cur.level].level,
                      run |-> cur.run, batch |-> cur.batch]
        /\ IF st = "ok"
           THEN /\ sealed' = Append(sealed, [level |-> plan[cur.level].level,
                                             entries |-> memtable])
                /\ memtable' = 0
                /\ cur' = NextCur
                /\ IF NextCur.level > Len(plan)
                   THEN /\ session' = "Sealed"
                        /\ pc' = "status_check"
                   ELSE /\ pc' = "write_batch"
                        /\ UNCHANGED session
                /\ UNCHANGED status
           ELSE /\ status' = st
                /\ session' = "Failed"
                /\ pc' = "status_check"
                /\ UNCHANGED <<memtable, cur, sealed>>
    /\ UNCHANGED <<kv, argv, env, exit_code, store, store0, fluid_opt, listeners, db, plan,
                   pending, picked, gateCalls>>

---------------------------------------------------------------------------
(* The Compaction Gate: FluidLSMBulkLoader's overrides *)

\* void ScheduleCompaction(tmpdb::CompactionTask *) override {}
ScheduleCompaction(queue, task) == queue

\* Variant of PickCompaction: the level asked about is picked.
PickCompactionLevel(level) == [level |-> level]

\* tmpdb::CompactionTask * PickCompaction(...) override {return nullptr;}
PickCompaction(level) == NoTask

RunsAt(runs, level) == {i \in 1..Len(runs) : runs[i].level = level}

RECURSIVE SumEntries(_, _)
SumEntries(runs, idx) ==
    IF idx = {} THEN 0
    ELSE LET i == CHOOSE x \in idx : TRUE
         IN  runs[i].entries + SumEntries(runs, idx \ {i})

\* What the engine does with a picked task: the runs of the task's level are
\* merged into one run of the next level.
Compact(runs, task) ==
    LET idx == RunsAt(runs, task.level)
        keep == SelectSeq(runs, LAMBDA r : r.level # task.level)
    IN  IF idx = {} THEN runs
        ELSE Append(keep, [level |-> task.level + 1,
                           entries |-> SumEntries(runs, idx)])

GateInstalled == "FluidLSMBulkLoader" \in listeners

CallbackLevels == {0} \cup {sealed[i].level : i \in 1..Len(sealed)}

\* The engine calls the listener's ScheduleCompaction.
ScheduleCompactionCallback ==
    /\ db = "open"
    /\ GateInstalled
    /\ gateCalls < MaxGateCalls
    /\ \E level \in CallbackLevels :
        pending' = ScheduleCompaction(pending, [level |-> level])
    /\ gateCalls' = gateCalls + 1
    /\ UNCHANGED <<kv, argv, env, pc, exit_code, store, store0, fluid_opt, listeners, db,
                   status, session, plan, cur, memtable, sealed, picked,
                   calls, lastOp>>

\* The engine calls the listener's PickCompaction and runs the task it gets.
PickCompactionCallback ==
    /\ db = "open"
    /\ GateInstalled
    /\ gateCalls < MaxGateCalls
    /\ \E level \in CallbackLevels :
        /\ picked' = PickCompaction(level)
        /\ sealed' = IF picked' = NoTask THEN sealed
                     ELSE Compact(sealed, picked')
    /\ gateCalls' = gateCalls + 1
    /\ UNCHANGED <<kv, argv, env, pc, exit_code, store, store0, fluid_opt, listeners, db,
                   status, session, plan, cur, memtable, pending, calls,
                   lastOp>>

---------------------------------------------------------------------------

Next ==
    \/ ParseArgs
    \/ MainDestroy
    \/ BuildDbSetup
    \/ OpenDB
    \/ BulkLoadEntries
    \/ PlanShape
    \/ WriteBatch
    \/ SealRun
    \/ StatusCheck
    \/ ScheduleCompactionCallback
    \/ PickCompactionCallback

Spec == Init /\ [][Next]_vars

\* The steps of the process itself: main is one thread that runs until it
\* returns or calls exit, and every engine call it makes returns.
ProcessNext ==
    \/ ParseArgs
    \/ MainDestroy
    \/ BuildDbSetup
    \/ OpenDB
    \/ BulkLoadEntries
    \/ PlanShape
    \/ WriteBatch
    \/ SealRun
    \/ StatusCheck

\* The invocations followed to their end under fairness: a fresh path, the
\* small buffer, a total given with -N.
LiveArgv ==
    { a \in Argv :
        /\ ~a.help
        /\ a.E = minimum_entry_size
        /\ a.B = 4
        /\ a.build_fill = "ENTRIES"
        /\ a.N <= 12 }

LiveInit == Init /\ argv \in LiveArgv /\ ~store

FairSpec == LiveInit /\ [][Next]_vars /\ WF_vars(ProcessNext)

---------------------------------------------------------------------------
(* The Shape Planner on its own: bulk_load_entries has just been called,   *)
(* with the shape and the total drawn from a wider range of small values.  *)

PlanArgv ==
    { [parse_ok |-> TRUE, help |-> FALSE, destroy_db |-> FALSE,
       T |-> t, K |-> k, Z |-> z, B |-> b, E |-> minimum_entry_size,
       build_fill |-> "ENTRIES", N |-> n, L |-> DefaultL] :
        t \in 1..MaxT, k \in RunCapVals, z \in RunCapVals,
        b \in 1..MaxPlanB, n \in 0..MaxPlanN }

PlanInit ==
    /\ argv \in PlanArgv
    /\ env = [T |-> argv.T, K |-> argv.K, Z |-> argv.Z, B |-> argv.B,
              E |-> argv.E, N |-> argv.N, L |-> argv.L,
              build_fill |-> argv.build_fill, destroy_db |-> argv.destroy_db]
    /\ pc = "plan"
    /\ exit_code = NotExited
    /\ store = TRUE
    /\ store0 = FALSE
    /\ fluid_opt = fill_fluid_opt(env)
    /\ listeners = {"FluidLSMBulkLoader"}
    /\ db = "open"
    /\ status = "ok"
    /\ session = "Planning"
    /\ plan = <<>>
    /\ cur = NoCur
    /\ memtable = 0
    /\ sealed = <<>>
    /\ pending = <<>>
    /\ picked = NoTask
    /\ calls = [NoCalls EXCEPT !.open = 1, !.load = 1]
    /\ lastOp = NoOp
    /\ gateCalls = 0
    /\ kv = NoKv

PlanNext == PlanShape

PlanSpec == PlanInit /\ [][PlanNext]_vars

---------------------------------------------------------------------------
(* The Key/Value Generator (spec.md 4.2); strings are sequences of          *)
(* one-character strings.                                                   *)

DigitChar == <<"0", "1", "2", "3", "4", "5", "6", "7", "8", "9">>

RECURSIVE DigitsOf(_)
DigitsOf(n) == IF n < 10 THEN 1 ELSE 1 + DigitsOf(n \div 10)

\* the fixed width of a rendered key number: that of the largest of the
\* domain [0, KEY_DOMAIN)
KeyWidth == DigitsOf(KEY_DOMAIN - 1)

\* n rendered in exactly width digits, zero-padded on the left
RECURSIVE Render(_, _)
Render(n, width) ==
    IF width = 0 THEN <<>>
    ELSE Append(Render(n \div 10, width - 1), DigitChar[(n % 10) + 1])

Fill(n, ch) == [i \in 1..n |-> ch]

\* generate_key(key_prefix): the prefix, then the number drawn, rendered
generate_key(key_prefix, draw) == key_prefix \o Render(draw, KeyWidth)

\* generate_val(value_size, value_prefix): exactly value_size bytes, the
\* prefix first and generator-determined bytes after it
generate_val(value_size, value_prefix) ==
    value_prefix \o Fill(value_size - Len(value_prefix), "a")

\* Variant of generate_kv_pair: the value is given the whole of kv_size.
generate_kv_pair_whole_value(kv_size, key_prefix, value_prefix, draw) ==
    LET key == generate_key(key_prefix, draw)
    IN  IF Len(key) + Len(value_prefix) > kv_size
        THEN [ok |-> FALSE, key |-> <<>>, value |-> <<>>]
        ELSE [ok |-> TRUE, key |-> key,
              value |-> generate_val(kv_size, value_prefix)]

\* generate_kv_pair(kv_size, key_prefix, value_prefix): the key, and a value
\* of the bytes that remain; it fails when kv_size cannot hold the key and
\* the value prefix.
generate_kv_pair(kv_size, key_prefix, value_prefix, draw) ==
    LET key == generate_key(key_prefix, draw)
    IN  IF Len(key) + Len(value_prefix) > kv_size
        THEN [ok |-> FALSE, key |-> <<>>, value |-> <<>>]
        ELSE [ok |-> TRUE, key |-> key,
              value |-> generate_val(kv_size - Len(key), value_prefix)]

\* the numbers the generator may draw, among them both ends of the domain
DrawVals == {0, 42, KEY_DOMAIN - 1}

KvSizes == minimum_entry_size..(minimum_entry_size + MaxKvExtra)
PrefixLens == 0..MaxPrefixLen

\* generate_kv_pair(kv_size) is the call with both prefixes empty.
KvCalls ==
    { [pending |-> TRUE, done |-> FALSE, kv_size |-> n,
       key_prefix |-> Fill(kp, "k"), value_prefix |-> Fill(vp, "v"),
       ok |-> FALSE, key |-> <<>>, value |-> <<>>] :
        n \in KvSizes, kp \in PrefixLens, vp \in PrefixLens }

GenerateKvPair ==
    /\ kv.pending
    /\ \E draw \in DrawVals :
        LET r == generate_kv_pair(kv.kv_size, kv.key_prefix,
                                  kv.value_prefix, draw)
        IN  kv' = [kv EXCEPT !.pending = FALSE, !.done = TRUE,
                             !.ok = r.ok, !.key = r.key, !.value = r.value]
    /\ UNCHANGED <<argv, env, pc, exit_code, store, store0, fluid_opt,
                   listeners, db, status, session, plan, cur, memtable,
                   sealed, pending, picked, calls, lastOp, gateCalls>>

\* build_db has constructed the generator and a caller asks for one pair.
GenInit ==
    /\ argv = [parse_ok |-> TRUE, help |-> FALSE, destroy_db |-> FALSE,
               T |-> DefaultT, K |-> DefaultK, Z |-> DefaultZ,
               B |-> DefaultB, E |-> DefaultE, build_fill |-> "ENTRIES",
               N |-> DefaultN, L |-> DefaultL]
    /\ env = environment
    /\ pc = "build_db"
    /\ exit_code = NotExited
    /\ store = FALSE
    /\ store0 = FALSE
    /\ fluid_opt = FluidOptions
    /\ listeners = {}
    /\ db = "null"
    /\ status = "none"
    /\ session = "Idle"
    /\ plan = <<>>
    /\ cur = NoCur
    /\ memtable = 0
    /\ sealed = <<>>
    /\ pending = <<>>
    /\ picked = NoTask
    /\ calls = NoCalls
    /\ lastOp = NoOp
    /\ gateCalls = 0
    /\ kv \in KvCalls

GenNext == GenerateKvPair

GenSpec == GenInit /\ [][GenNext]_vars

---------------------------------------------------------------------------
(* Claims *)

EngineError == status \in {"open_error", "write_error", "seal_error"}

\* C1: once an engine operation (open, batch write, seal) has returned an
\* error, the session is Failed, no further engine operation is issued (so
\* the failed one is not retried), the process exits with failure, and after
\* a failed open bulk_load_entries is never invoked.
C1_FailFast ==
    /\ [](EngineError => session = "Failed")
    /\ [](EngineError /\ pc = "exit" => exit_code = EXIT_FAILURE)
    /\ [](status = "open_error" =>
            calls.load = 0 /\ calls.write = 0 /\ calls.seal = 0)
    /\ [][EngineError =>
            /\ calls'.open = calls.open
            /\ calls'.load = calls.load
            /\ calls'.write = calls.write
            /\ calls'.seal = calls.seal
            /\ status' = status
            /\ session' = session]_vars

\* C1 witness: the third batch of a run failed and the process has exited.
C1_Witness ==
    /\ pc = "exit"
    /\ status = "write_error"
    /\ lastOp.op = "write_batch"
    /\ lastOp.batch = 3
    /\ calls.write = 3
    /\ session = "Failed"

\* C2: the gate is registered before the engine is opened and is never
\* removed; no compaction callback changes any state of the engine or of the
\* loader, no task is ever queued and no task is ever picked.
C2_GateInstalled ==
    /\ [](calls.open > 0 => GateInstalled)
    /\ [](pending = <<>> /\ picked = NoTask)
    /\ [][GateInstalled => GateInstalled']_vars
    /\ [][gateCalls' # gateCalls =>
            UNCHANGED <<sealed, pending, picked, memtable, store, db, status,
                        session, plan, cur, calls, lastOp>>]_vars

\* C2 witness: a callback has fired while the loader was between two writes.
C2_Witness ==
    /\ gateCalls > 0
    /\ session = "Loading"
    /\ calls.write > 0
    /\ GateInstalled

PlanLevels == {plan[i].level : i \in 1..Len(plan)}
SealedLevels == {sealed[i].level : i \in 1..Len(sealed)}

PlannedRuns(level) ==
    IF level \in PlanLevels
    THEN plan[CHOOSE i \in 1..Len(plan) : plan[i].level = level].run_count
    ELSE 0

LoaderOps == calls.write + calls.seal

\* C4: each write or seal the loader issues follows the previous one in
\* plan order: a run's batches 1, 2, ... then its seal; after a seal the
\* first batch of the next run of the same level, or, only when that was
\* the level's last planned run, the first batch of the next level.
C4_Sequential ==
    [][LoaderOps' # LoaderOps =>
        /\ LoaderOps' = LoaderOps + 1
        /\ lastOp'.level \in PlanLevels
        /\ lastOp'.run \in 1..PlannedRuns(lastOp'.level)
        /\ CASE lastOp.op = "none" ->
                    /\ lastOp'.op = "write_batch"
                    /\ lastOp'.level = 0 /\ lastOp'.run = 1
                    /\ lastOp'.batch = 1
             [] lastOp.op = "write_batch" ->
                    /\ lastOp'.level = lastOp.level
                    /\ lastOp'.run = lastOp.run
                    /\ \/ lastOp'.op = "write_batch"
                          /\ lastOp'.batch = lastOp.batch + 1
                       \/ lastOp'.op = "seal"
                          /\ lastOp'.batch = lastOp.batch
             [] lastOp.op = "seal" ->
                    /\ lastOp'.op = "write_batch"
                    /\ lastOp'.batch = 1
                    /\ \/ /\ lastOp'.level = lastOp.level
                          /\ lastOp'.run = lastOp.run + 1
                       \/ /\ lastOp'.level = lastOp.level + 1
                          /\ lastOp'.run = 1
                          /\ lastOp.run = PlannedRuns(lastOp.level)
                          /\ Cardinality(RunsAt(sealed, lastOp.level))
                                = PlannedRuns(lastOp.level)]_vars

\* C4 witness: the second run of the second level is sealed after two
\* batches.
C4_Witness ==
    /\ lastOp.op = "seal"
    /\ lastOp.level = 1
    /\ lastOp.run = 2
    /\ Len(sealed) >= 3

RECURSIVE SumPlan(_, _)
SumPlan(p, n) == IF n = 0 THEN 0 ELSE p[n].entries + SumPlan(p, n - 1)

C6_RunCaps ==
    session = "Loading" =>
        /\ \A i \in 1..(Len(plan) - 1) : plan[i].run_count <= env.K
        /\ plan[Len(plan)].run_count <= env.Z

\* C6 witness: a plan of several levels that uses both caps, K below Z.
C6_Witness ==
    /\ session = "Loading"
    /\ Len(plan) >= 2
    /\ env.K < env.Z
    /\ plan[1].run_count = env.K
    /\ plan[Len(plan)].run_count = env.Z

\* C7 as stated: with E below the minimum the process fails before any
\* engine call and no store exists at the path afterward.
C7_NoStoreAfterward ==
    (pc = "exit" /\ argv.E < minimum_entry_size) =>
        /\ exit_code = EXIT_FAILURE
        /\ calls = NoCalls
        /\ ~store

\* C7 amended: with E below the minimum the process fails before any engine
\* call and the path is left as it was: no store is created, and a store
\* that was there before is still there.
C7_NoEngineCall ==
    (pc = "exit" /\ argv.E < minimum_entry_size) =>
        /\ exit_code = EXIT_FAILURE
        /\ calls = NoCalls
        /\ db = "null"
        /\ store = store0

\* C7 witness: the entry size is the only thing wrong with the invocation.
C7_Witness ==
    /\ pc = "exit"
    /\ argv.E < minimum_entry_size
    /\ argv.parse_ok /\ ~argv.help
    /\ argv.T > 1
    /\ ~store0

InvalidShape(a) == a.T <= 1 \/ a.K < 1 \/ a.Z < 1 \/ a.B <= 0

\* C8: an invocation with an invalid shape parameter is rejected before the
\* engine is touched: the engine is never opened and no store is created.
C8_InvalidShapeRejected ==
    InvalidShape(argv) =>
        /\ calls.open = 0
        /\ (store => store0)

RECURSIVE SumCapacity(_, _, _)
SumCapacity(B, T, L) ==
    IF L = 0 THEN 0 ELSE B * Pow(T, L - 1) + SumCapacity(B, T, L - 1)

\* C9: in LEVELS mode with level count L the entries to load, and the
\* entries loaded at a successful end, are the sum of B * T^i for i in
\* [0, L), and each of the L levels is planned full.
C9_LevelsModeFillsLevels ==
    (env.build_fill = "LEVELS" /\ session \in {"Loading", "Sealed"}) =>
        /\ SumPlan(plan, Len(plan)) = SumCapacity(env.B, env.T, env.L)
        /\ Len(plan) = env.L
        /\ \A i \in 1..Len(plan) :
            plan[i].entries = env.B * Pow(env.T, plan[i].level)
        /\ session = "Sealed" =>
            SumEntries(sealed, 1..Len(sealed))
                = SumCapacity(env.B, env.T, env.L)

\* C10: the process exits with 0 exactly when the arguments were accepted,
\* the engine opened and bulk_load_entries returned ok; otherwise it exits
\* with a non-zero status.
C10_ExitStatus ==
    /\ (pc # "exit" => exit_code = NotExited)
    /\ (pc = "exit" =>
        /\ exit_code \in {EXIT_SUCCESS, EXIT_FAILURE}
        /\ exit_code = EXIT_SUCCESS <=>
            /\ argv.parse_ok /\ ~argv.help
            /\ argv.E >= minimum_entry_size
            /\ calls.open = 1 /\ status # "open_error"
            /\ calls.load = 1 /\ status = "ok")

\* C10 witness: a failed load after a good open, and the process has exited.
C10_Witness ==
    /\ pc = "exit"
    /\ exit_code = EXIT_FAILURE
    /\ calls.open = 1
    /\ status = "seal_error"

SessionSteps ==
    {<<"Idle", "Planning">>, <<"Planning", "Loading">>,
     <<"Loading", "Sealed">>, <<"Idle", "Failed">>,
     <<"Planning", "Failed">>, <<"Loading", "Failed">>}

RECURSIVE PlannedRunTotal(_, _)
PlannedRunTotal(p, n) ==
    IF n = 0 THEN 0 ELSE p[n].run_count + PlannedRunTotal(p, n - 1)

\* C11: a session moves only along Idle -> Planning -> Loading -> Sealed or
\* from one of the first three to Failed; Sealed and Failed are never left;
\* Sealed means every planned run of every planned level was sealed with no
\* error, an engine error puts the session in Failed in the same step, and
\* once build_db has started the session ends in Sealed or Failed.
C11_SessionLifecycle ==
    /\ [][session' # session => <<session, session'>> \in SessionSteps]_vars
    /\ [][~EngineError /\ EngineError' => session' = "Failed"]_vars
    /\ [](session = "Sealed" =>
            /\ status = "ok"
            /\ plan # <<>>
            /\ Len(sealed) = PlannedRunTotal(plan, Len(plan))
            /\ \A i \in 1..Len(plan) :
                Cardinality(RunsAt(sealed, plan[i].level))
                    = plan[i].run_count)
    /\ [](session = "Failed" => status \notin {"none", "ok"})
    /\ [](pc = "exit" /\ calls.open > 0 => session \in {"Sealed", "Failed"})
    /\ (pc = "build_db" ~> session \in {"Sealed", "Failed"})

\* C11 witness: a plan of several levels was loaded to the end.
C11_Witness ==
    /\ session = "Sealed"
    /\ status = "ok"
    /\ Len(plan) >= 2
    /\ Len(sealed) = PlannedRunTotal(plan, Len(plan))

LoadError == status \in {"write_error", "seal_error"}

\* C12: the step in which a batch write or a seal fails, and every step
\* after it, leaves the sealed runs and the store as they are and issues no
\* destroy: at Failed the sealed runs are those sealed before the failure.
C12_NoRollback ==
    /\ [][LoadError' =>
            /\ sealed' = sealed
            /\ store' = store
            /\ calls'.destroy = calls.destroy]_vars
    /\ [](LoadError => store /\ session = "Failed")

\* C12 witness: a write failed at the second level, with the first level's
\* runs sealed, and the process has exited.
C12_Witness ==
    /\ pc = "exit"
    /\ status = "write_error"
    /\ lastOp.level >= 1
    /\ Len(sealed) >= 1
    /\ \A i \in 1..Len(sealed) : sealed[i].level < lastOp.level
    /\ store

\* C13: once bulk_load_entries has planned, the status is a PlanningError
\* exactly when N is 0 or T is not greater than 1, and then the session is
\* Failed with no plan, no batch write and no seal.
C13_PlanningError ==
    (calls.load > 0 /\ pc # "plan") =>
        /\ status = "planning_error" <=> (env.N = 0 \/ env.T <= 1)
        /\ status = "planning_error" =>
            /\ session = "Failed"
            /\ plan = <<>>
            /\ calls.write = 0
            /\ calls.seal = 0
            /\ sealed = <<>>

\* C13 witness: a positive total with size ratio 1 was refused, and the
\* process has exited.
C13_Witness ==
    /\ pc = "exit"
    /\ status = "planning_error"
    /\ env.T <= 1
    /\ env.N > 0
    /\ exit_code = EXIT_FAILURE

\* C15 as stated: for every kv_size of at least 32, with or without
\* prefixes, the call returns a pair whose lengths add up to kv_size.
C15_AnyPrefixes ==
    (kv.done /\ kv.kv_size >= minimum_entry_size) =>
        /\ kv.ok
        /\ Len(kv.key) + Len(kv.value) = kv.kv_size

KvFits ==
    Len(kv.key_prefix) + KeyWidth + Len(kv.value_prefix) <= kv.kv_size

\* C15 amended: for every kv_size of at least 32 the lengths of the pair add
\* up to kv_size in the form without prefixes, and in the form with
\* prefixes whenever the key with its prefix and the value prefix fit in
\* kv_size; when they do not fit no pair of that length is returned.
C15_KvPairLength ==
    (kv.done /\ kv.kv_size >= minimum_entry_size) =>
        /\ (kv.key_prefix = <<>> /\ kv.value_prefix = <<>>) => KvFits
        /\ KvFits =>
            /\ kv.ok
            /\ Len(kv.key) + Len(kv.value) = kv.kv_size
            /\ SubSeq(kv.key, 1, Len(kv.key_prefix)) = kv.key_prefix
            /\ SubSeq(kv.value, 1, Len(kv.value_prefix)) = kv.value_prefix
        /\ ~KvFits => ~kv.ok

\* C15 witness: a pair of exactly the minimum entry size with both prefixes.
C15_Witness ==
    /\ kv.done
    /\ kv.ok
    /\ kv.kv_size = minimum_entry_size
    /\ Len(kv.key_prefix) > 0
    /\ Len(kv.value_prefix) > 0
    /\ Len(kv.key) + Len(kv.value) = minimum_entry_size

RECURSIVE SumSeq(_, _)
SumSeq(q, i) == IF i = 0 THEN 0 ELSE q[i] + SumSeq(q, i - 1)

\* C16: within every level of the plan the per-run entry counts add up to
\* the level's entries, every run is non-empty, and any two runs of the level
\* differ by at most one entry.
C16_EvenSplit ==
    \A i \in 1..Len(plan) :
        LET runs == plan[i].entries_in_run
        IN  /\ Len(runs) = plan[i].run_count
            /\ SumSeq(runs, Len(runs)) = plan[i].entries
            /\ \A j \in 1..Len(runs) : runs[j] >= 1
            /\ \A j, k \in 1..Len(runs) : runs[j] - runs[k] <= 1

\* C16 witness: a level whose entries do not divide evenly among its runs.
C16_Witness ==
    \E i \in 1..Len(plan) :
        /\ plan[i].run_count >= 2
        /\ plan[i].entries % plan[i].run_count # 0
        /\ \E j, k \in 1..plan[i].run_count :
            plan[i].entries_in_run[j] = plan[i].entries_in_run[k] + 1

\* parse_args rejects the invocation: exit(EXIT_FAILURE) before main goes on
Rejected == ~argv.parse_ok \/ argv.help \/ argv.E < minimum_entry_size

\* C17: the store is destroyed only when the destroy flag is set, only after
\* validation has passed, at most once and strictly before the store is
\* opened; nothing destroys it after the open; a rejected invocation leaves
\* a store that was there as it was.
C17_DestroyBeforeOpen ==
    /\ [](calls.destroy > 0 => argv.destroy_db /\ ~Rejected /\ env.destroy_db)
    /\ [](calls.destroy <= 1)
    /\ [][calls'.destroy # calls.destroy =>
            /\ pc = "main"
            /\ calls.open = 0
            /\ calls'.open = 0
            /\ ~store']_vars
    /\ [][calls.open > 0 => calls'.destroy = calls.destroy]_vars
    /\ [](~argv.destroy_db /\ store0 => store)
    /\ [](Rejected => calls.destroy = 0 /\ store = store0)

\* C17 witness: a store that was there was destroyed, then opened anew.
C17_Witness ==
    /\ store0
    /\ calls.destroy = 1
    /\ calls.open = 1
    /\ store
    /\ pc = "exit"

====
